---- MODULE Spec2Model ----
(***************************************************************************)
(* SimpleConfusionMatrix (icevision/metrics/confusion_matrix): the         *)
(* accumulator of (target label, predicted label) pairs of an object       *)
(* detection evaluation run, and its accumulate / finalize / plot / log    *)
(* life cycle.                                                             *)
(*                                                                         *)
(* Optional values (Python None) are sequences of length 0 or 1.           *)
(* Rounded floats are integers counting thousandths.                       *)
(***************************************************************************)
EXTENDS Integers, Sequences, FiniteSets, TLC

VARIABLES
    target_labels,      \* self.target_labels
    predicted_labels,   \* self.predicted_labels
    class_map,          \* self.class_map: None or the list of the class ids
    confusion_matrix,   \* self.confusion_matrix: None or the matrix
    policy,             \* self._policy
    pc,                 \* "idle", or "loop" inside accumulate's for loop
    pred,               \* the loop variable of accumulate: the image last read
    op,                 \* the operation that made the last step
    outcome,            \* how the last operation ended: "running", "ok", an error
    ret,                \* what the last operation returned
    processed,          \* pairs appended since construction (bounds the run)
    fresh               \* pairs appended since the last finalize that returned

vars == <<target_labels, predicted_labels, class_map, confusion_matrix, policy,
          pc, pred, op, outcome, ret, processed, fresh>>

accumulator == <<target_labels, predicted_labels, class_map, confusion_matrix>>

-----------------------------------------------------------------------------
(* Bounds of the model. *)

MaxGT == 2          \* ground-truth boxes of one image
MaxPred == 2        \* predicted boxes of one image
MaxLabels == 2      \* pairs appended in one run of the model

-----------------------------------------------------------------------------
(* Values. *)

None == <<>>
Some(v) == <<v>>

BEST_SCORE == "BEST_SCORE"
BEST_IOU == "BEST_IOU"
OTHER_POLICY == "OTHER"
Policies == {BEST_SCORE, BEST_IOU, OTHER_POLICY}

BackgroundId == 0
IouThresholdNum == 1
IouThresholdDen == 2

Min(a, b) == IF a <= b THEN a ELSE b
Max(a, b) == IF a >= b THEN a ELSE b

SeqsUpTo(S, n) == UNION {[1..k -> S] : k \in 0..n}
Range(s) == {s[i] : i \in 1..Len(s)}

\* class_map._class2id.values(): background first, then the classes.
ClassMaps == {<<0, 1>>, <<0, 1, 2>>}
ClassNames == <<"background", "infra", "vessel">>
id2class(cmap, id) == ClassNames[id + 1]

\* Boxes <<xmin, ymin, xmax, ymax>>.  BoxA and BoxHalf overlap with an IoU of
\* exactly 1/2; BoxFar overlaps neither.
BoxA == <<0, 0, 2, 2>>
BoxHalf == <<0, 0, 2, 1>>
BoxFar == <<3, 3, 4, 4>>
GTBoxes == {BoxA, BoxFar}
PredBoxes == {BoxHalf, BoxFar}
Scores == {1, 2}

Area(b) == (b[3] - b[1]) * (b[4] - b[2])
Intersection(a, b) ==
    LET w == Min(a[3], b[3]) - Max(a[1], b[1])
        h == Min(a[4], b[4]) - Max(a[2], b[2])
    IN  IF w > 0 /\ h > 0 THEN w * h ELSE 0
\* iou(a, b) >= iou_threshold, in integers.
IouAtLeastThreshold(a, b) ==
    Intersection(a, b) * IouThresholdDen
        >= IouThresholdNum * (Area(a) + Area(b) - Intersection(a, b))

\* The records of one image: the detection component holds the boxes and the
\* label ids; its labels are the names of the label ids.
GTItems(cmap, boxes) == [bbox : boxes, label_id : Range(cmap) \ {BackgroundId}]
PredItems(cmap, boxes, scores) ==
    [bbox : boxes, label_id : Range(cmap) \ {BackgroundId}, score : scores]
Image(cmap, g, p) ==
    [ground_truth |-> [class_map |-> cmap, items |-> g], pred |-> [items |-> p]]

\* The images one accumulator is fed in a row have at most one box on each
\* side, one ground-truth position and one score; a single image is taken
\* from all of them.
AnyImage ==
    [maxGT |-> MaxGT, maxPred |-> MaxPred,
     gtBoxes |-> GTBoxes, predBoxes |-> PredBoxes, scores |-> Scores]
BatchImage ==
    [maxGT |-> 1, maxPred |-> 1,
     gtBoxes |-> {BoxA}, predBoxes |-> PredBoxes, scores |-> {1}]
GTRecords(cmap, images) == SeqsUpTo(GTItems(cmap, images.gtBoxes), images.maxGT)
PredRecords(cmap, images) ==
    SeqsUpTo(PredItems(cmap, images.predBoxes, images.scores), images.maxPred)

label_ids(record) == [i \in 1..Len(record.items) |-> record.items[i].label_id]
labels(record, cmap) ==
    [i \in 1..Len(record.items) |-> id2class(cmap, record.items[i].label_id)]

-----------------------------------------------------------------------------
(* confusion_matrix_utils: match_records and get_best_score_item. *)

PredictionItem(q) ==
    [predicted_bbox |-> q.bbox, predicted_label_id |-> q.label_id, score |-> q.score]

\* One match per ground-truth box, in order: its label id and the predicted
\* items whose IoU with it reaches the threshold, in the prediction's order.
match_records(target, prediction) ==
    [i \in 1..Len(target.items) |->
        [target_label_id |-> target.items[i].label_id,
         prediction_items |->
            LET near == SelectSeq(prediction.items,
                            LAMBDA q : IouAtLeastThreshold(target.items[i].bbox, q.bbox))
            IN  [k \in 1..Len(near) |-> PredictionItem(near[k])]]]

\* What get_best_score_item may do with no candidate at all: raise, or
\* return a stand-in item labelled with some class id.
Raised == [raised |-> TRUE]
Returned(item) == [raised |-> FALSE, item |-> item]
StandIn(id) == [predicted_bbox |-> <<0, 0, 0, 0>>, predicted_label_id |-> id, score |-> 1]
EmptySelections(cmap) == {Raised} \cup {Returned(StandIn(id)) : id \in Range(cmap)}

\* The choices that matter for one image: get_best_score_item is called with
\* no candidate only under BEST_SCORE, for a match with an empty list.
EmptySelectionsFor(pol, img) ==
    IF /\ pol = BEST_SCORE
       /\ \E i \in 1..Len(img.ground_truth.items) :
             match_records(img.ground_truth, img.pred)[i].prediction_items = <<>>
    THEN EmptySelections(img.ground_truth.class_map)
    ELSE {Raised}

\* The candidate with the highest score, the first of them on a tie.
get_best_score_item(prediction_items, onEmpty) ==
    IF prediction_items = <<>> THEN onEmpty
    ELSE LET best == CHOOSE i \in 1..Len(prediction_items) :
                        /\ \A j \in 1..Len(prediction_items) :
                              prediction_items[j].score <= prediction_items[i].score
                        /\ \A j \in 1..(i - 1) :
                              prediction_items[j].score < prediction_items[i].score
         IN  Returned(prediction_items[best])

-----------------------------------------------------------------------------
(* accumulate: the body of the loop over the images. *)

NoError == "none"
Labels(error, targets, predicted) ==
    [error |-> error, target_labels |-> targets, predicted_labels |-> predicted]

\* The loop, were it to skip a match that has no candidate.
RECURSIVE MatchLoopSkipping(_, _, _, _, _, _)
MatchLoopSkipping(pol, matches, i, targets, predicted, onEmpty) ==
    IF i > Len(matches) THEN Labels(NoError, targets, predicted)
    ELSE IF pol = BEST_SCORE
         THEN IF matches[i].prediction_items = <<>>
              THEN MatchLoopSkipping(pol, matches, i + 1, targets, predicted, onEmpty)
              ELSE MatchLoopSkipping(pol, matches, i + 1,
                       Append(targets, matches[i].target_label_id),
                       Append(predicted,
                              get_best_score_item(matches[i].prediction_items, onEmpty)
                                  .item.predicted_label_id),
                       onEmpty)
    ELSE IF pol = BEST_IOU
         THEN Labels("NotImplementedError", targets, predicted)
         ELSE Labels("RuntimeError", targets, predicted)

\* The loop, were it to take the first candidate instead of the selected one.
RECURSIVE MatchLoopFirst(_, _, _, _, _, _)
MatchLoopFirst(pol, matches, i, targets, predicted, onEmpty) ==
    IF i > Len(matches) THEN Labels(NoError, targets, predicted)
    ELSE IF pol = BEST_SCORE
         THEN LET predicted_item ==
                      IF matches[i].prediction_items = <<>> THEN onEmpty
                      ELSE Returned(matches[i].prediction_items[1])
              IN  IF predicted_item.raised
                  THEN Labels("ValueError", targets, predicted)
                  ELSE MatchLoopFirst(pol, matches, i + 1,
                           Append(targets, matches[i].target_label_id),
                           Append(predicted, predicted_item.item.predicted_label_id),
                           onEmpty)
    ELSE IF pol = BEST_IOU
         THEN Labels("NotImplementedError", targets, predicted)
         ELSE Labels("RuntimeError", targets, predicted)

\* for target_item, prediction_items in matches: ... from match i on, with the
\* local lists target_labels and predicted_labels built so far.
RECURSIVE MatchLoop(_, _, _, _, _, _)
MatchLoop(pol, matches, i, targets, predicted, onEmpty) ==
    IF i > Len(matches) THEN Labels(NoError, targets, predicted)
    ELSE IF pol = BEST_SCORE
         THEN LET predicted_item ==
                      get_best_score_item(matches[i].prediction_items, onEmpty)
              IN  IF predicted_item.raised
                  THEN Labels("ValueError", targets, predicted)
                  ELSE MatchLoop(pol, matches, i + 1,
                           Append(targets, matches[i].target_label_id),
                           Append(predicted, predicted_item.item.predicted_label_id),
                           onEmpty)
    ELSE IF pol = BEST_IOU
         THEN Labels("NotImplementedError", targets, predicted)
         ELSE Labels("RuntimeError", targets, predicted)

\* The branch of the false positives, were it never taken.
IsFalsePositiveOnlyNever(img) == FALSE

\* len(prediction_record.detection.labels) > 0
\*     and len(target_record.detection.labels) == 0
IsFalsePositiveOnly(img) ==
    /\ Len(labels(img.pred, img.ground_truth.class_map)) > 0
    /\ Len(labels(img.ground_truth, img.ground_truth.class_map)) = 0

\* [0 for i in pred.pred.detection.labels]
FalsePositiveTargets(img) ==
    [i \in 1..Len(labels(img.pred, img.ground_truth.class_map)) |-> BackgroundId]

\* The local lists of one image when the loop body reaches the two extends,
\* or the error that ends the call before them.
ImageLabels(pol, img, onEmpty) ==
    LET matches == match_records(img.ground_truth, img.pred)
        looped == MatchLoop(pol, matches, 1, <<>>, <<>>, onEmpty)
        targets == IF IsFalsePositiveOnly(img)
                   THEN FalsePositiveTargets(img) ELSE looped.target_labels
        predicted == IF IsFalsePositiveOnly(img)
                     THEN label_ids(img.pred) ELSE looped.predicted_labels
    IN  IF looped.error # NoError THEN looped
        ELSE IF Len(predicted) # Len(targets)
             THEN Labels("AssertionError", targets, predicted)
             ELSE Labels(NoError, targets, predicted)

\* The class map, were it assigned at the end of the loop body.
ClassMapAfterImageLate(img, result) ==
    IF result.error = NoError THEN Some(img.ground_truth.class_map) ELSE class_map

\* self.class_map = target_record.detection.class_map, the first statement of
\* the loop body: it has run whatever the rest of the body does.
ClassMapAfterImage(img, result) == Some(img.ground_truth.class_map)

\* The two extends, were the new labels put in front, or the second left out.
ExtendedTargetsPrepended(own, targets) == targets \o own
ExtendedPredictedDropped(own, predicted) == own

\* self.target_labels.extend(target_labels)
ExtendedTargets(own, targets) == own \o targets
\* self.predicted_labels.extend(predicted_labels)
ExtendedPredicted(own, predicted) == own \o predicted

NoReturn == [kind |-> "none"]

\* accumulate(preds) is entered; the batch is read image by image.
AccumulateCall ==
    /\ pc = "idle"
    /\ pc' = "loop"
    /\ pred' = None
    /\ op' = "accumulate"
    /\ outcome' = "running"
    /\ ret' = NoReturn
    /\ UNCHANGED <<accumulator, policy, processed, fresh>>

\* One iteration of the loop: the next image of the batch is read and
\* processed; an error leaves the loop and the call.
AccumulateImage(images) ==
    /\ pc = "loop"
    /\ \E cmap \in ClassMaps :
       \E g \in GTRecords(cmap, images) :
       \E p \in PredRecords(cmap, images) :
       \E img \in {Image(cmap, g, p)} :
       \E onEmpty \in EmptySelectionsFor(policy, img) :
       \E result \in {ImageLabels(policy, img, onEmpty)} :
       \E failed \in {result.error # NoError} :
          /\ failed \/ processed + Len(result.target_labels) <= MaxLabels
          /\ pred' = Some(img)
          /\ class_map' = ClassMapAfterImage(img, result)
          /\ target_labels' =
                IF failed THEN target_labels
                ELSE ExtendedTargets(target_labels, result.target_labels)
          /\ predicted_labels' =
                IF failed THEN predicted_labels
                ELSE ExtendedPredicted(predicted_labels, result.predicted_labels)
          /\ processed' =
                IF failed THEN processed ELSE processed + Len(result.target_labels)
          /\ fresh' = IF failed THEN fresh ELSE fresh + Len(result.target_labels)
          /\ pc' = IF failed THEN "idle" ELSE "loop"
          /\ outcome' = IF failed THEN result.error ELSE "running"
    /\ op' = "accumulate"
    /\ ret' = NoReturn
    /\ UNCHANGED <<confusion_matrix, policy>>

\* The batch is exhausted (it may be empty): accumulate returns None.
AccumulateReturn ==
    /\ pc = "loop"
    /\ pc' = "idle"
    /\ pred' = None
    /\ op' = "accumulate"
    /\ outcome' = "ok"
    /\ ret' = NoReturn
    /\ UNCHANGED <<accumulator, policy, processed, fresh>>

-----------------------------------------------------------------------------
(* finalize: the statistics of the accumulated pairs. *)

CountPairs(y_true, y_pred, a, b) ==
    Cardinality({i \in 1..Len(y_true) : y_true[i] = a /\ y_pred[i] = b})
CountOf(y, a) == Cardinality({i \in 1..Len(y) : y[i] = a})

\* sklearn.metrics.confusion_matrix(y_true, y_pred, labels): the pairs whose
\* two labels are both among labels, counted by (true label, predicted label).
ConfusionMatrixOf(y_true, y_pred, ids) ==
    [cell \in Range(ids) \X Range(ids) |-> CountPairs(y_true, y_pred, cell[1], cell[2])]

\* np.round(num / den, 3) in thousandths, half to even; sklearn gives 0 for an
\* undefined ratio.
Round3(num, den) ==
    IF den = 0 THEN 0
    ELSE LET q == (1000 * num) \div den
             r == (1000 * num) % den
         IN  IF 2 * r > den \/ (2 * r = den /\ q % 2 = 1) THEN q + 1 ELSE q

Precision(y_true, y_pred, id) ==
    Round3(CountPairs(y_true, y_pred, id, id), CountOf(y_pred, id))
Recall(y_true, y_pred, id) ==
    Round3(CountPairs(y_true, y_pred, id, id), CountOf(y_true, id))
FScore(y_true, y_pred, id) ==
    Round3(2 * CountPairs(y_true, y_pred, id, id), CountOf(y_pred, id) + CountOf(y_true, id))

\* {"dummy_value_for_fastai": [p, r, f1]}: the entries at positions 1 and 2 of
\* the per-class arrays ("Infra", "Vessel").
Summary(y_true, y_pred, ids) ==
    [kind |-> "stats",
     p  |-> <<Precision(y_true, y_pred, ids[2]), Precision(y_true, y_pred, ids[3])>>,
     r  |-> <<Recall(y_true, y_pred, ids[2]), Recall(y_true, y_pred, ids[3])>>,
     f1 |-> <<FScore(y_true, y_pred, ids[2]), FScore(y_true, y_pred, ids[3])>>]

\* _reset, were it to keep the lists.
ResetKept == [target_labels |-> target_labels, predicted_labels |-> predicted_labels]

\* _reset
Reset == [target_labels |-> <<>>, predicted_labels |-> <<>>]

\* How finalize ends, in the order of its statements: the assert; the read of
\* class_map._class2id, which None does not have; confusion_matrix, which
\* rejects labels none of which occurs in a non-empty y_true; p[2], which
\* needs three class ids.
FinalizeOutcome ==
    IF Len(target_labels) # Len(predicted_labels) THEN "AssertionError"
    ELSE IF class_map = None THEN "AttributeError"
    ELSE IF target_labels # <<>> /\ Range(target_labels) \cap Range(class_map[1]) = {}
         THEN "ValueError"
    ELSE IF Len(class_map[1]) < 3 THEN "IndexError"
    ELSE "ok"

Finalize ==
    /\ pc = "idle"
    /\ op' = "finalize"
    /\ \E how \in {FinalizeOutcome} :
          /\ outcome' = how
          /\ confusion_matrix' =
                IF how \in {"ok", "IndexError"}
                THEN Some(ConfusionMatrixOf(target_labels, predicted_labels, class_map[1]))
                ELSE confusion_matrix
          /\ target_labels' = IF how = "ok" THEN Reset.target_labels ELSE target_labels
          /\ predicted_labels' =
                IF how = "ok" THEN Reset.predicted_labels ELSE predicted_labels
          /\ ret' = IF how = "ok"
                    THEN Summary(target_labels, predicted_labels, class_map[1])
                    ELSE NoReturn
          /\ fresh' = IF how = "ok" THEN 0 ELSE fresh
    /\ pred' = None
    /\ UNCHANGED <<class_map, policy, pc, processed>>

-----------------------------------------------------------------------------
(* plot and log. *)

Normalizations == {"true", "pred", "all", "None"}
NormalizeArguments == Normalizations \cup {"columns"}

RECURSIVE SumOver(_, _)
SumOver(f, S) ==
    IF S = {} THEN 0
    ELSE LET x == CHOOSE y \in S : TRUE IN f[x] + SumOver(f, S \ {x})

\* _maybe_normalize: a normalized cell is a ratio, kept in thousandths;
\* nan_to_num turns 0 / 0 into 0.  Without normalization the counts stay.
Ratio(num, den) == IF den = 0 THEN 0 ELSE (1000 * num) \div den
maybe_normalize(cm, normalize) ==
    LET ids == {cell[1] : cell \in DOMAIN cm}
    IN  [cell \in DOMAIN cm |->
            IF normalize = "true"
            THEN Ratio(cm[cell], SumOver(cm, {cell[1]} \X ids))
            ELSE IF normalize = "pred"
            THEN Ratio(cm[cell], SumOver(cm, ids \X {cell[2]}))
            ELSE IF normalize = "all"
            THEN Ratio(cm[cell], SumOver(cm, DOMAIN cm))
            ELSE cm[cell]]

PlotOutcome(normalize) ==
    IF normalize \notin Normalizations THEN "ValueError"
    ELSE IF confusion_matrix = None \/ class_map = None THEN "AttributeError"
    ELSE "ok"

\* plot, were it to normalize the stored matrix in place.
MatrixAfterPlotInPlace(normalize) ==
    IF PlotOutcome(normalize) = "ok"
    THEN Some(maybe_normalize(confusion_matrix[1], normalize))
    ELSE confusion_matrix

\* What plot leaves in self.confusion_matrix: it only reads it.
MatrixAfterPlot(normalize) == confusion_matrix

Plot(normalize) ==
    /\ pc = "idle"
    /\ op' = "plot"
    /\ outcome' = PlotOutcome(normalize)
    /\ ret' = IF PlotOutcome(normalize) = "ok"
              THEN [kind |-> "figure", normalize |-> normalize,
                    cm |-> maybe_normalize(confusion_matrix[1], normalize)]
              ELSE NoReturn
    /\ confusion_matrix' = MatrixAfterPlot(normalize)
    /\ pred' = None
    /\ UNCHANGED <<target_labels, predicted_labels, class_map, policy, pc, processed,
                   fresh>>

Log ==
    /\ pc = "idle"
    /\ op' = "log"
    /\ outcome' = "ok"
    /\ ret' = NoReturn
    /\ pred' = None
    /\ UNCHANGED <<accumulator, policy, pc, processed, fresh>>

-----------------------------------------------------------------------------
(* The specifications. *)

\* __init__, with any value as policy.
Init ==
    /\ target_labels = <<>>
    /\ predicted_labels = <<>>
    /\ class_map = None
    /\ confusion_matrix = None
    /\ policy \in Policies
    /\ pc = "idle"
    /\ pred = None
    /\ op = "init"
    /\ outcome = "ok"
    /\ ret = NoReturn
    /\ processed = 0
    /\ fresh = 0

\* The life cycle of one accumulator.
Next ==
    \/ AccumulateCall
    \/ AccumulateImage(BatchImage)
    \/ AccumulateReturn
    \/ Finalize
    \/ \E normalize \in NormalizeArguments : Plot(normalize)
    \/ Log

Spec == Init /\ [][Next]_vars

\* One image, any image, processed by a new accumulator.
NextImage ==
    \/ op = "init" /\ AccumulateCall
    \/ pred = None /\ AccumulateImage(AnyImage)
    \/ AccumulateReturn

SpecImage == Init /\ [][NextImage]_vars

-----------------------------------------------------------------------------
(* The properties. *)

IsPrefix(s, t) == Len(s) <= Len(t) /\ SubSeq(t, 1, Len(s)) = s
Zeros(n) == [i \in 1..n |-> 0]
Total(cm) == SumOver(cm, DOMAIN cm)

\* An image has been read by the running call, or by the call that failed.
ImageRead == op = "accumulate" /\ pred # None
\* The candidates of ground-truth box i of an image.
Candidates(img, i) == match_records(img.ground_truth, img.pred)[i].prediction_items
WithCandidate(img) ==
    {i \in 1..Len(img.ground_truth.items) : Candidates(img, i) # <<>>}

\* C1: in every state, between two images of an accumulate call as well as
\* between calls, target_labels and predicted_labels have the same length.
LengthsAgree == Len(target_labels) = Len(predicted_labels)

\* Two images of one call have each appended a pair.
LengthsAgreeWitness ==
    pc = "loop" /\ pred # None /\ Len(target_labels) >= 2 /\ Len(predicted_labels) >= 2

\* C2: a finalize that returns leaves both lists empty, and the matrix it
\* stores counts no more pairs than were appended since the previous finalize
\* that returned: none, when nothing was accumulated in between.
FinalizeConsumes ==
    [][(op' = "finalize" /\ outcome' = "ok") =>
          /\ target_labels' = <<>>
          /\ predicted_labels' = <<>>
          /\ Total(confusion_matrix'[1]) <= fresh
          /\ (fresh = 0 => ret'.p = <<0, 0>> /\ ret'.r = <<0, 0>> /\ ret'.f1 = <<0, 0>>)]_vars

\* A finalize has consumed pairs, and a later one has found none.
FinalizeConsumesWitness ==
    /\ op = "finalize" /\ outcome = "ok"
    /\ processed >= 1
    /\ target_labels = <<>> /\ predicted_labels = <<>>
    /\ Total(confusion_matrix[1]) = 0

\* C3: an image without ground-truth boxes and with N >= 1 predicted boxes
\* extends target_labels by N background ids and predicted_labels by the
\* predicted label ids in their order, under every policy.
FalsePositivesRecorded ==
    [][(/\ pc = "loop"
        /\ pred' # None
        /\ pred'[1].ground_truth.items = <<>>
        /\ pred'[1].pred.items # <<>>) =>
          /\ outcome' = "running"
          /\ target_labels' = target_labels \o Zeros(Len(pred'[1].pred.items))
          /\ predicted_labels' =
                predicted_labels \o
                    [i \in 1..Len(pred'[1].pred.items) |-> pred'[1].pred.items[i].label_id]]_vars

\* Two false positives of different classes, under a policy that selects nothing.
FalsePositivesRecordedWitness ==
    /\ ImageRead
    /\ policy = BEST_IOU
    /\ pred[1].ground_truth.items = <<>>
    /\ Len(pred[1].pred.items) = 2
    /\ target_labels = <<0, 0>>
    /\ predicted_labels = <<2, 1>>

\* C4: under a policy other than BEST_SCORE every image that holds a box ends
\* the call with the policy's error, and no pair is ever appended.
PolicyFailsFast ==
    policy # BEST_SCORE =>
        /\ target_labels = <<>>
        /\ predicted_labels = <<>>
        /\ (ImageRead /\ (pred[1].ground_truth.items # <<>> \/ pred[1].pred.items # <<>>) =>
               outcome = IF policy = BEST_IOU THEN "NotImplementedError" ELSE "RuntimeError")

\* C5, as claimed: an image with ground truth appends one pair for each box
\* that has a candidate, and none for the others.
DroppedWithoutCandidate ==
    (ImageRead /\ policy = BEST_SCORE /\ pred[1].ground_truth.items # <<>>) =>
        /\ outcome = "running"
        /\ Len(target_labels) = Cardinality(WithCandidate(pred[1]))
        /\ Len(predicted_labels) = Cardinality(WithCandidate(pred[1]))

\* C5, amended: an image with ground truth that is processed without error
\* appends one pair for every ground-truth box, with or without candidate,
\* the target labels being the ground-truth label ids in their order.
EveryBoxContributes ==
    (ImageRead /\ outcome = "running" /\ pred[1].ground_truth.items # <<>>) =>
        /\ policy = BEST_SCORE
        /\ target_labels =
              [i \in 1..Len(pred[1].ground_truth.items) |->
                  pred[1].ground_truth.items[i].label_id]
        /\ Len(predicted_labels) = Len(pred[1].ground_truth.items)

\* Of two boxes one has a candidate and one has none, and both have a pair.
EveryBoxContributesWitness ==
    /\ ImageRead /\ outcome = "running"
    /\ Len(pred[1].ground_truth.items) = 2
    /\ Cardinality(WithCandidate(pred[1])) = 1
    /\ Len(target_labels) = 2
    /\ Len(predicted_labels) = 2

\* C6: under BEST_SCORE the predicted label of a box that has candidates is
\* the label of the candidate no other outscores and no earlier one equals;
\* class_map apart, the image changes nothing but the two lists.
BestScoreSelected ==
    (ImageRead /\ outcome = "running" /\ policy = BEST_SCORE
        /\ pred[1].ground_truth.items # <<>>) =>
        /\ Len(predicted_labels) = Len(pred[1].ground_truth.items)
        /\ \A i \in WithCandidate(pred[1]) :
              \E k \in 1..Len(Candidates(pred[1], i)) :
                 /\ predicted_labels[i] = Candidates(pred[1], i)[k].predicted_label_id
                 /\ \A j \in 1..Len(Candidates(pred[1], i)) :
                       Candidates(pred[1], i)[j].score <= Candidates(pred[1], i)[k].score
                 /\ \A j \in 1..(k - 1) :
                       Candidates(pred[1], i)[j].score < Candidates(pred[1], i)[k].score
        /\ class_map = Some(pred[1].ground_truth.class_map)
        /\ confusion_matrix = None

\* The second of two candidates has the higher score and another label.
BestScoreSelectedWitness ==
    /\ ImageRead /\ outcome = "running" /\ policy = BEST_SCORE
    /\ Len(pred[1].ground_truth.items) = 1
    /\ Len(Candidates(pred[1], 1)) = 2
    /\ Candidates(pred[1], 1)[1].score < Candidates(pred[1], 1)[2].score
    /\ Candidates(pred[1], 1)[1].predicted_label_id = 1
    /\ predicted_labels = <<2>>

\* C7: every step of accumulate keeps the lists as prefixes of the new ones;
\* an image processed without error appends its pairs after them, the target
\* labels being its ground-truth label ids in order (background ids for
\* false positives); the lists get shorter in finalize only.
AccumulateAppends ==
    [][/\ op' = "accumulate" =>
            /\ IsPrefix(target_labels, target_labels')
            /\ IsPrefix(predicted_labels, predicted_labels')
       /\ (pc = "loop" /\ pred' # None /\ outcome' = "running") =>
            /\ target_labels' =
                  target_labels \o
                     (IF pred'[1].ground_truth.items = <<>>
                      THEN Zeros(Len(pred'[1].pred.items))
                      ELSE [i \in 1..Len(pred'[1].ground_truth.items) |->
                               pred'[1].ground_truth.items[i].label_id])
            /\ Len(predicted_labels') = Len(target_labels')
       /\ (\/ Len(target_labels') < Len(target_labels)
           \/ Len(predicted_labels') < Len(predicted_labels)) => op' = "finalize"]_vars

\* A second image has appended a pair after the different pair of the first.
AccumulateAppendsWitness ==
    /\ pc = "loop" /\ pred # None /\ outcome = "running"
    /\ Len(target_labels) = 2
    /\ target_labels[1] # target_labels[2]
    /\ predicted_labels[1] # predicted_labels[2]

\* C8: finalize called with both lists empty returns, stores a matrix of
\* zeros and leaves the lists empty.
FinalizeOnEmptyReturns ==
    [][(op' = "finalize" /\ target_labels = <<>> /\ predicted_labels = <<>>) =>
          /\ outcome' = "ok"
          /\ confusion_matrix' # None
          /\ Total(confusion_matrix'[1]) = 0
          /\ target_labels' = <<>>
          /\ predicted_labels' = <<>>]_vars

\* C9: plot, whatever its normalize argument, and log change nothing of the
\* accumulator, and the stored matrix changes in finalize only.
PlotAndLogReadOnly ==
    [][/\ op' \in {"plot", "log"} => UNCHANGED accumulator
       /\ confusion_matrix' # confusion_matrix => op' = "finalize"]_vars

\* A matrix holding counts has been plotted normalized.
PlotAndLogReadOnlyWitness ==
    /\ op = "plot" /\ outcome = "ok"
    /\ ret.normalize = "true"
    /\ Total(confusion_matrix[1]) >= 1

\* C10: the image on which accumulate fails appends nothing and ends the
\* call, the lists keeping what the images before it appended and their equal
\* lengths, while class_map is already the class map of that image.
FailingImageAppendsNothing ==
    [][(op' = "accumulate" /\ outcome' \notin {"running", "ok"}) =>
          /\ target_labels' = target_labels
          /\ predicted_labels' = predicted_labels
          /\ Len(target_labels') = Len(predicted_labels')
          /\ pred' # None
          /\ class_map' = Some(pred'[1].ground_truth.class_map)
          /\ pc' = "idle"
          /\ confusion_matrix' = confusion_matrix]_vars

\* The call has failed on an image with another class map than the image
\* before it, which had appended a pair.
FailingImageAppendsNothingWitness ==
    /\ op = "accumulate" /\ outcome = "NotImplementedError"
    /\ target_labels = <<0>> /\ predicted_labels = <<2>>
    /\ class_map = Some(<<0, 1>>)

====
